---- MODULE Spec2Model ----
(***************************************************************************)
(* Model of the end_call application: the credential resolver              *)
(* (ai_clients.get_api_key_for_service), the provider clients and their    *)
(* factory (ai_clients.py), and the chat turn of                           *)
(* ChatSessionViewSet.add_message (views.py).                              *)
(*                                                                         *)
(* Conventions.                                                            *)
(*  - A text (message content, provider text) is a sequence of characters, *)
(*    so that str.strip() and the "\n" joins are computed.                 *)
(*  - A model identifier is the sequence of its maximal '_'-free runs and  *)
(*    the "_" characters between them, so that split('_') is computed.     *)
(*  - A Python value that may be None is a record [some, val].             *)
(*  - timezone.now() is a logical clock that advances at every read.       *)
(***************************************************************************)
EXTENDS Integers, Sequences, FiniteSets, TLC

\* ------------------------------------------------------------------ bounds
\* Number of add_message requests the model lets arrive.
MaxTurns == 2
\* Number of create/update/destroy requests on the credential endpoint.
MaxKeyOps == 2
\* Length of the stored histories the formatters are called on directly.
MaxHistory == 3
\* add_message requests served in the specification of a turn's progress
MaxLiveTurns == 1

\* ------------------------------------------------------- optional values
None == [some |-> FALSE, val |-> <<>>]
Some(v) == [some |-> TRUE, val |-> v]
\* Python truthiness of an optional text: neither None nor empty.
Truthy(o) == o.some /\ o.val # <<>>

NoKey == [some |-> FALSE, val |-> ""]
Key(k) == [some |-> TRUE, val |-> k]
\* Python truthiness of an optional key string.
TruthyKey(o) == o.some /\ o.val # ""

\* ------------------------------------------------------------------ texts
IsSpace(c) == c \in {" ", "\n"}

RECURSIVE LStrip(_)
LStrip(s) == IF s = <<>> THEN s
             ELSE IF IsSpace(Head(s)) THEN LStrip(Tail(s)) ELSE s

RECURSIVE RStrip(_)
RStrip(s) == IF s = <<>> THEN s
             ELSE IF IsSpace(s[Len(s)]) THEN RStrip(SubSeq(s, 1, Len(s) - 1)) ELSE s

\* str.strip()
Strip(s) == RStrip(LStrip(s))

\* "\n".join(parts)
RECURSIVE JoinNl(_)
JoinNl(parts) == IF parts = <<>> THEN <<>>
                 ELSE IF Len(parts) = 1 THEN parts[1]
                 ELSE parts[1] \o <<"\n">> \o JoinNl(Tail(parts))

\* ------------------------------------------------------------ credentials
Users == {"alice", "bob", "carol"}
SERVICE_CHOICES == {"openai", "anthropic", "google"}

\* The process-wide Fernet key, and a key the process no longer holds.
FernetKey == "cur"
RotatedKey == "old"

\* A stored UserAPIKey row: encrypted_api_key is a Fernet token (the plaintext
\* and the key it was encrypted under), or empty bytes (fk = "none").
NoRow == [exists |-> FALSE, plain |-> "", fk |-> "none"]
Row(plain, fk) == [exists |-> TRUE, plain |-> plain, fk |-> fk]

\* fernet.encrypt(raw_key.encode()) under the process key.
Encrypt(raw) == Row(raw, FernetKey)

UserKeyOf(u, s) == IF u = "alice" THEN "uk_alice_" \o s
                   ELSE IF u = "bob" THEN "uk_bob_" \o s
                   ELSE "uk_carol_" \o s

\* The credential table of the model: alice's keys decrypt, bob's rows were
\* written under a rotated Fernet key, carol has no row.
InitialKeys == [p \in Users \X SERVICE_CHOICES |->
                  IF p[1] = "alice" THEN Encrypt(UserKeyOf(p[1], p[2]))
                  ELSE IF p[1] = "bob" THEN Row(UserKeyOf(p[1], p[2]), RotatedKey)
                  ELSE NoRow]

\* System credential configurations: the settings attribute and the
\* environment variable "<SERVICE>_API_KEY" of each service.
SystemProfiles == {"settings", "environ", "neither", "blank_settings"}
SettingsOf(profile) == [s \in SERVICE_CHOICES |->
                          IF profile = "settings" THEN Key("sys_" \o s)
                          ELSE IF profile = "blank_settings" THEN Key("")
                          ELSE NoKey]
EnvironOf(profile) == [s \in SERVICE_CHOICES |->
                         IF profile \in {"environ", "blank_settings"} THEN Key("env_" \o s)
                         ELSE NoKey]

\* ------------------------------------------------------------------ state
VARIABLES
    keys,          \* UserAPIKey table: (user, service_name) -> row
    settings_keys, \* django settings: service -> "<SERVICE>_API_KEY" attribute
    environ_keys,  \* os.environ: service -> "<SERVICE>_API_KEY"
    sessions,      \* ChatSession table: id -> row
    messages,      \* ChatMessage table, in insertion (id) order
    clock,         \* the last value timezone.now() returned
    turn,          \* the add_message requests: slot -> position and locals
    calls,         \* the outbound requests.post calls issued so far
    key_ops,       \* number of credential endpoint requests served
    resolved,      \* the get_api_key_for_service call, when it was the last operation
    last_call      \* the last direct call of the factory or of a client method

vars == <<keys, settings_keys, environ_keys, sessions, messages, clock, turn, calls,
          key_ops, resolved, last_call>>

Turns == 1..MaxTurns
Sessions == {1}

\* ChatSession.ai_model_identifier values: one of AI_MODEL_CHOICES per
\* provider, and one whose provider token no client handles (the column is a
\* plain CharField: choices are enforced by the serializers only).
ModelIds == { <<"openai", "_", "gpt-4">>,
              <<"anthropic", "_", "claude-3-opus">>,
              <<"google", "_", "gemini-pro">>,
              <<"cohere", "_", "command">> }

\* model_identifier.split('_')[0]
ExtractServiceName(model_identifier) ==
    IF model_identifier = <<>> \/ Head(model_identifier) = "_" THEN ""
    ELSE Head(model_identifier)

\* ------------------------------------------------------------- exceptions
\* The outcome of a call: no exception, or the class the view's handlers
\* tell apart (ValueError, requests RequestException, any other Exception),
\* with str(e).
NoExc == [kind |-> "none", msg |-> ""]
Exc(kind, msg) == [kind |-> kind, msg |-> msg]

\* ------------------------------------------------------ credential resolver
\* UserAPIKey.get_api_key: decrypt, None on empty bytes or on any failure.
GetApiKey(row) ==
    IF row.fk = "none" THEN NoKey
    ELSE IF row.fk = FernetKey THEN Key(row.plain)
    ELSE NoKey

\* getattr(settings, NAME, os.getenv(NAME))
SystemKey(service_name) ==
    IF settings_keys[service_name].some THEN settings_keys[service_name]
    ELSE environ_keys[service_name]

GetApiKeyForService_SystemFirst(user, service_name, lookup_raises) ==
    LET row == keys[<<user, service_name>>]
        user_key == IF lookup_raises \/ ~row.exists THEN NoKey ELSE GetApiKey(row)
    IN [exc |-> NoExc,
        key |-> IF TruthyKey(SystemKey(service_name)) THEN SystemKey(service_name)
                ELSE IF TruthyKey(user_key) THEN user_key
                ELSE NoKey]

GetApiKeyForService_NoCatch(user, service_name, lookup_raises) ==
    LET row == keys[<<user, service_name>>]
        user_key == IF lookup_raises \/ ~row.exists THEN NoKey ELSE GetApiKey(row)
        failed == lookup_raises \/ (row.exists /\ row.fk # "none" /\ row.fk # FernetKey)
    IN [exc |-> IF failed THEN Exc("Exception", "InvalidToken") ELSE NoExc,
        key |-> IF failed THEN NoKey
                ELSE IF TruthyKey(user_key) THEN user_key
                ELSE IF TruthyKey(SystemKey(service_name)) THEN SystemKey(service_name)
                ELSE NoKey]

\* get_api_key_for_service(user, service_name); lookup_raises: the table
\* lookup raised an exception other than DoesNotExist. The result is the
\* exception that leaves the function (none: both handlers swallow) and the
\* key returned.
GetApiKeyForService(user, service_name, lookup_raises) ==
    LET row == keys[<<user, service_name>>]
        user_key == IF lookup_raises \/ ~row.exists THEN NoKey ELSE GetApiKey(row)
    IN [exc |-> NoExc,
        key |-> IF TruthyKey(user_key) THEN user_key
                ELSE IF TruthyKey(SystemKey(service_name)) THEN SystemKey(service_name)
                ELSE NoKey]

\* ----------------------------------------------------------- client factory
NoClient == [service_name |-> "", api_key |-> NoKey]

\* The get_api_key_for_service call a constructor makes.
ResolverCall(user, service_name) == [user |-> user, service_name |-> service_name]

BaseAIClientInit_NoCheck(user, model_identifier, lookup_raises) ==
    LET service_name == ExtractServiceName(model_identifier)
        got == GetApiKeyForService(user, service_name, lookup_raises)
    IN [exc |-> got.exc,
        client |-> [service_name |-> service_name, api_key |-> got.key],
        resolver_calls |-> <<ResolverCall(user, service_name)>>]

\* BaseAIClient.__init__: the exception raised, the client built, and the
\* resolver calls made.
BaseAIClientInit(user, model_identifier, lookup_raises) ==
    LET service_name == ExtractServiceName(model_identifier)
        got == GetApiKeyForService(user, service_name, lookup_raises)
        made == <<ResolverCall(user, service_name)>>
    IN IF got.exc.kind # "none"
       THEN [exc |-> got.exc, client |-> NoClient, resolver_calls |-> made]
       ELSE IF ~TruthyKey(got.key)
       THEN [exc |-> Exc("ValueError", "API Key for service '" \o service_name \o "' is missing."),
             client |-> NoClient, resolver_calls |-> made]
       ELSE [exc |-> NoExc,
             client |-> [service_name |-> service_name, api_key |-> got.key],
             resolver_calls |-> made]

\* The class get_ai_client picks for a provider token ("none": the else branch).
ClientClass(service_name) ==
    IF service_name = "openai" THEN "OpenAIClient"
    ELSE IF service_name = "anthropic" THEN "AnthropicClient"
    ELSE IF service_name = "google" THEN "GoogleClient"
    ELSE "none"

GetAiClient_DefaultOpenAI(user, model_identifier, lookup_raises) ==
    LET service_name == ExtractServiceName(model_identifier)
    IN IF ClientClass(service_name) # "none"
       THEN BaseAIClientInit(user, model_identifier, lookup_raises)
               @@ [cls |-> ClientClass(service_name)]
       ELSE BaseAIClientInit(user, <<"openai">>, lookup_raises)
               @@ [cls |-> "OpenAIClient"]

\* get_ai_client(user, model_identifier): the constructor's outcome and the
\* class whose constructor ran.
GetAiClient(user, model_identifier, lookup_raises) ==
    LET service_name == ExtractServiceName(model_identifier)
    IN IF ClientClass(service_name) # "none"
       THEN BaseAIClientInit(user, model_identifier, lookup_raises)
               @@ [cls |-> ClientClass(service_name)]
       ELSE [exc |-> Exc("ValueError", "Unsupported AI service: " \o service_name),
             client |-> NoClient, resolver_calls |-> <<>>, cls |-> "none"]

\* ------------------------------------------------------- message formatters
\* session.messages.order_by('timestamp'), evaluated: the rows of the
\* session, by ascending timestamp (insertion sort, stable).
RECURSIVE InsertByTimestamp(_, _)
InsertByTimestamp(sorted, m) ==
    IF sorted = <<>> THEN <<m>>
    ELSE IF sorted[Len(sorted)].timestamp <= m.timestamp THEN Append(sorted, m)
    ELSE Append(InsertByTimestamp(SubSeq(sorted, 1, Len(sorted) - 1), m), sorted[Len(sorted)])

RECURSIVE OrderByTimestamp(_)
OrderByTimestamp(rows) ==
    IF rows = <<>> THEN <<>>
    ELSE InsertByTimestamp(OrderByTimestamp(SubSeq(rows, 1, Len(rows) - 1)), rows[Len(rows)])

IsOfSession(m, s) == m.session = s
\* The rows of session s among rows, by ascending timestamp.
OrderedMessages(rows, s) == OrderByTimestamp(SelectSeq(rows, LAMBDA m : IsOfSession(m, s)))
MessagesHistory_NewestFirst(s) ==
    LET h == OrderByTimestamp(SelectSeq(messages, LAMBDA m : IsOfSession(m, s)))
    IN [i \in 1..Len(h) |-> h[Len(h) + 1 - i]]

MessagesHistory(s) == OrderedMessages(messages, s)

Entry(role, content) == [role |-> role, content |-> content]

\* OpenAIClient.format_messages
RECURSIVE OpenAIFormat(_)
OpenAIFormat(history) ==
    IF history = <<>> THEN <<>>
    ELSE LET msg == Head(history)
         IN (IF msg.role \in {"user", "assistant", "system"}
             THEN <<Entry(msg.role, msg.content)>> ELSE <<>>) \o OpenAIFormat(Tail(history))

RECURSIVE AnthropicLoop_LastSystem(_, _, _)
AnthropicLoop_LastSystem(history, formatted, system_prompt) ==
    IF history = <<>> THEN [messages |-> formatted, system |-> system_prompt]
    ELSE LET msg == Head(history)
         IN IF msg.role = "system"
            THEN AnthropicLoop_LastSystem(Tail(history), formatted, Some(msg.content))
            ELSE AnthropicLoop_LastSystem(Tail(history),
                                          Append(formatted, Entry(msg.role, msg.content)),
                                          system_prompt)

\* AnthropicClient.format_messages: the loop
RECURSIVE AnthropicLoop(_, _, _)
AnthropicLoop(history, formatted, system_prompt) ==
    IF history = <<>> THEN [messages |-> formatted, system |-> system_prompt]
    ELSE LET msg == Head(history)
         IN IF msg.role = "system"
            THEN AnthropicLoop(Tail(history), formatted,
                               IF ~system_prompt.some THEN Some(msg.content) ELSE system_prompt)
            ELSE IF msg.role \in {"user", "assistant"}
            THEN AnthropicLoop(Tail(history), Append(formatted, Entry(msg.role, msg.content)),
                               system_prompt)
            ELSE AnthropicLoop(Tail(history), formatted, system_prompt)

AnthropicFormat_Strict(history) ==
    LET out == AnthropicLoop(history, <<>>, None)
        bad == out.messages = <<>> \/ out.messages[1].role # "user"
    IN [messages |-> IF bad THEN <<>> ELSE out.messages,
        system |-> IF bad THEN None ELSE out.system, warned |-> bad,
        exc |-> IF bad
                THEN Exc("ValueError", "Anthropic requires the first message to be from 'user'.")
                ELSE NoExc]

\* AnthropicClient.format_messages: the body returned, whether the
\* first-message warning was printed, and the exception raised (none: the
\* method has no raise statement, the one after the warning is commented out).
AnthropicFormat(history) ==
    LET out == AnthropicLoop(history, <<>>, None)
    IN [messages |-> out.messages, system |-> out.system,
        warned |-> out.messages = <<>> \/ out.messages[1].role # "user",
        exc |-> NoExc]

RECURSIVE GoogleLoop_NoMerge(_, _, _)
GoogleLoop_NoMerge(history, contents, last_role) ==
    IF history = <<>> THEN contents
    ELSE LET msg == Head(history)
         IN IF msg.role = "user"
            THEN GoogleLoop_NoMerge(Tail(history),
                                    Append(contents, Entry("user", msg.content)), "user")
            ELSE IF msg.role = "assistant" /\ contents # <<>>
            THEN GoogleLoop_NoMerge(Tail(history),
                                    Append(contents, Entry("model", msg.content)), "model")
            ELSE GoogleLoop_NoMerge(Tail(history), contents, last_role)

\* GoogleClient.format_messages: the loop over (contents, last_role)
RECURSIVE GoogleLoop(_, _, _)
GoogleLoop(history, contents, last_role) ==
    IF history = <<>> THEN contents
    ELSE LET msg == Head(history)
             n == Len(contents)
         IN IF msg.role = "user"
            THEN GoogleLoop(Tail(history), Append(contents, Entry("user", msg.content)), "user")
            ELSE IF msg.role = "assistant"
            THEN IF last_role = "user"
                 THEN GoogleLoop(Tail(history), Append(contents, Entry("model", msg.content)),
                                 "model")
                 ELSE IF n > 0 /\ contents[n].role = "model"
                 THEN GoogleLoop(Tail(history),
                                 [contents EXCEPT ![n].content = @ \o <<"\n">> \o msg.content],
                                 last_role)
                 ELSE GoogleLoop(Tail(history), contents, last_role)
            ELSE GoogleLoop(Tail(history), contents, last_role)

\* GoogleClient.format_messages: the contents list, and whether the
\* ends-on-model warning was printed.
GoogleFormat(history) ==
    LET contents == GoogleLoop(history, <<>>, "none")
    IN [messages |-> contents, system |-> None,
        warned |-> contents # <<>> /\ contents[Len(contents)].role = "model",
        exc |-> NoExc]

\* format_messages of the client of service_name, as a request body
\* [messages, system, warned].
FormatMessages(service_name, history) ==
    IF service_name = "openai"
    THEN [messages |-> OpenAIFormat(history), system |-> None, warned |-> FALSE,
          exc |-> NoExc]
    ELSE IF service_name = "anthropic" THEN AnthropicFormat(history)
    ELSE GoogleFormat(history)

\* BaseAIClient.get_completion: "if not formatted_messages" (a list for
\* OpenAI, a non-empty dict for the others).
FormattedIsEmpty(service_name, body) == service_name = "openai" /\ body.messages = <<>>

\* --------------------------------------------------------- provider replies
\* A JSON value where the code expects a string: a string, null, a value of
\* another type (a list), or a key that is missing.
JStr(text) == [t |-> "str", s |-> text]
JNull == [t |-> "null", s |-> <<>>]
JList == [t |-> "list", s |-> <<>>]
JMissing == [t |-> "missing", s |-> <<>>]

Returned(text) == [exc |-> NoExc, text |-> text]
Raised(kind, msg) == [exc |-> Exc(kind, msg), text |-> None]

\* Response bodies of the OpenAI endpoint: shape is the top-level JSON type,
\* error the type of the 'error' member ("absent" when there is none),
\* choices the 'content' of each choice's message.
OpenAIBody(shape, error, errmsg, choices) ==
    [shape |-> shape, error |-> error, errmsg |-> errmsg, choices |-> choices]
OpenAIResponses ==
    { OpenAIBody("dict", "absent", "", <<JStr(<<"h", "i">>)>>),
      OpenAIBody("dict", "absent", "", <<JStr(<<" ", "h", "i", "\n">>)>>),
      OpenAIBody("dict", "absent", "", <<JStr(<<" ", "\n">>)>>),
      OpenAIBody("dict", "absent", "", <<JStr(<<>>)>>),
      OpenAIBody("dict", "absent", "", <<JNull>>),
      OpenAIBody("dict", "absent", "", <<JList>>),
      OpenAIBody("dict", "absent", "", <<JMissing>>),
      OpenAIBody("dict", "absent", "", <<>>),
      OpenAIBody("dict", "dict", "quota exceeded", <<>>),
      OpenAIBody("dict", "str", "", <<>>),
      OpenAIBody("list", "absent", "", <<>>) }

\* OpenAIClient.parse_response
OpenAIParse(r) ==
    LET failed == Raised("ValueError", "Failed to parse response from OpenAI API.")
    IN IF r.shape # "dict" THEN failed
       ELSE IF r.error = "dict" THEN Raised("ValueError", "OpenAI API Error: " \o r.errmsg)
       ELSE IF r.error # "absent"
       THEN Raised("Exception", "'str' object has no attribute 'get'")
       ELSE IF r.choices = <<>> THEN failed
       ELSE LET content == r.choices[1]
            IN IF content.t = "missing" THEN failed
               ELSE IF content.t = "null" THEN Returned(None)
               ELSE IF content.t = "str"
               THEN (IF content.s # <<>> THEN Returned(Some(Strip(content.s)))
                     ELSE Returned(None))
               ELSE Raised("Exception", "'list' object has no attribute 'strip'")

\* Response bodies of the Anthropic endpoint: type is the envelope's 'type',
\* content the blocks, each with its 'type' ("missing" when absent) and 'text'.
Block(type, text) == [type |-> type, text |-> text]
AnthropicBody(shape, type, errmsg, content) ==
    [shape |-> shape, type |-> type, errmsg |-> errmsg, content |-> content]
AnthropicResponses ==
    { AnthropicBody("dict", "message", "", <<Block("text", JStr(<<"h", "i">>))>>),
      AnthropicBody("dict", "message", "", <<Block("text", JStr(<<"h", "i", " ">>))>>),
      AnthropicBody("dict", "message", "", <<Block("text", JStr(<<" ">>))>>),
      AnthropicBody("dict", "message", "", <<Block("text", JStr(<<>>))>>),
      AnthropicBody("dict", "message", "", <<Block("text", JNull)>>),
      AnthropicBody("dict", "message", "", <<Block("text", JMissing)>>),
      AnthropicBody("dict", "message", "", <<Block("tool_use", JMissing)>>),
      AnthropicBody("dict", "message", "", <<Block("missing", JStr(<<"h", "i">>))>>),
      AnthropicBody("dict", "message", "", <<>>),
      AnthropicBody("dict", "error", "overloaded", <<>>),
      AnthropicBody("list", "message", "", <<>>) }

\* AnthropicClient.parse_response
AnthropicParse(r) ==
    LET failed == Raised("ValueError", "Failed to parse response from Anthropic API.")
    IN IF r.shape # "dict" THEN Raised("Exception", "'list' object has no attribute 'get'")
       ELSE IF r.type = "error"
       THEN Raised("ValueError", "Anthropic API Error: " \o r.errmsg)
       ELSE IF r.content = <<>> THEN failed
       ELSE LET content_block == r.content[1]
            IN IF content_block.type = "missing" THEN failed
               ELSE IF content_block.type = "text"
               THEN (IF content_block.text.t = "missing" THEN failed
                     ELSE IF content_block.text.t = "str"
                     THEN Returned(Some(Strip(content_block.text.s)))
                     ELSE Raised("Exception", "object has no attribute 'strip'"))
               ELSE Returned(None)

\* Response bodies of the Google endpoint: candidates, each with its
\* finishReason ("none" when absent), whether it has 'content', and the
\* 'text' of each part ("missing": a part without text); errmsg is
\* error.message and block_reason promptFeedback.blockReason ("" when absent).
Candidate(finishReason, has_content, parts) ==
    [finishReason |-> finishReason, has_content |-> has_content, parts |-> parts]
GoogleBody(shape, candidates, errmsg, block_reason) ==
    [shape |-> shape, candidates |-> candidates, errmsg |-> errmsg,
     block_reason |-> block_reason]
GoogleResponses ==
    { GoogleBody("dict", <<Candidate("STOP", TRUE, <<JStr(<<"h", "i">>)>>)>>, "", ""),
      GoogleBody("dict", <<Candidate("STOP", TRUE, <<JStr(<<"h">>), JStr(<<"i">>)>>)>>, "", ""),
      GoogleBody("dict", <<Candidate("none", TRUE, <<JMissing, JStr(<<"h", "i", " ">>)>>)>>, "", ""),
      GoogleBody("dict", <<Candidate("MAX_TOKENS", TRUE, <<JStr(<<" ">>)>>)>>, "", ""),
      GoogleBody("dict", <<Candidate("STOP", TRUE, <<>>)>>, "", ""),
      GoogleBody("dict", <<Candidate("STOP", TRUE, <<JNull>>)>>, "", ""),
      GoogleBody("dict", <<Candidate("STOP", FALSE, <<>>)>>, "", ""),
      GoogleBody("dict", <<Candidate("SAFETY", TRUE, <<JStr(<<"h", "i">>)>>)>>, "", ""),
      GoogleBody("dict", <<Candidate("SAFETY", FALSE, <<>>)>>, "", ""),
      GoogleBody("dict", <<Candidate("RECITATION", TRUE, <<JStr(<<"h", "i">>)>>)>>, "", ""),
      GoogleBody("dict", <<>>, "", ""),
      GoogleBody("dict", <<>>, "bad request", ""),
      GoogleBody("dict", <<>>, "", "SAFETY"),
      GoogleBody("list", <<>>, "", "") }

\* [part['text'] for part in parts if 'text' in part]
RECURSIVE TextParts(_)
TextParts(parts) ==
    IF parts = <<>> THEN <<>>
    ELSE (IF Head(parts).t = "missing" THEN <<>> ELSE <<Head(parts)>>) \o TextParts(Tail(parts))

RECURSIVE PartTexts(_)
PartTexts(parts) ==
    IF parts = <<>> THEN <<>> ELSE <<Head(parts).s>> \o PartTexts(Tail(parts))

\* GoogleClient.parse_response
GoogleParse(r) ==
    LET failed == Raised("ValueError", "Failed to parse response from Google API.")
    IN IF r.shape # "dict" THEN Raised("Exception", "'list' object has no attribute 'get'")
       ELSE IF r.candidates = <<>>
       THEN Raised("ValueError",
                   "Google API Error: "
                   \o (IF r.errmsg # "" THEN r.errmsg
                       ELSE "Unknown Google API error, response did not contain candidates.")
                   \o (IF r.block_reason # ""
                       THEN " Blocked due to: " \o r.block_reason \o ". Safety Ratings: []"
                       ELSE ""))
       ELSE LET candidate == r.candidates[1]
                text_parts == TextParts(candidate.parts)
                full_text == JoinNl(PartTexts(text_parts))
            IN IF candidate.finishReason = "SAFETY"
               THEN Raised("ValueError",
                           "Google API response blocked due to safety concerns. Ratings: []")
               ELSE IF ~candidate.has_content THEN failed
               ELSE IF \E i \in 1..Len(text_parts) : text_parts[i].t # "str" THEN failed
               ELSE IF full_text # <<>> THEN Returned(Some(Strip(full_text)))
               ELSE Returned(None)

Responses(service_name) ==
    IF service_name = "openai" THEN OpenAIResponses
    ELSE IF service_name = "anthropic" THEN AnthropicResponses
    ELSE GoogleResponses

\* parse_response of the client of service_name
ParseResponse(service_name, r) ==
    IF service_name = "openai" THEN OpenAIParse(r)
    ELSE IF service_name = "anthropic" THEN AnthropicParse(r)
    ELSE GoogleParse(r)

\* call_api: what requests.post / raise_for_status / response.json() raise.
\* Each is a RequestException and is re-raised after logging.
TransportErrors == {"Timeout", "HTTPError"}

\* ------------------------------------------------------------ the chat turn
\* request.data['content'] of an add_message request: blank, whitespace
\* only, or text within whitespace.
RequestContents == { <<>>, <<" ">>, <<" ", "q">> }

ValidateContent_NoTrim(data) ==
    IF data = <<>> THEN None ELSE Some(data)

\* NewChatMessageSerializer: content = CharField(required=True,
\* allow_blank=False), which trims whitespace before the blank check.
\* The validated content, or None when is_valid raises.
ValidateContent(data) ==
    IF Strip(data) = <<>> THEN None ELSE Some(Strip(data))

NoResponse == [status |-> 0, detail |-> <<>>, messages |-> <<>>]
Response(status, detail, msgs) == [status |-> status, detail |-> detail, messages |-> msgs]

HTTP_200_OK == 200
HTTP_201_CREATED == 201
HTTP_204_NO_CONTENT == 204
HTTP_400_BAD_REQUEST == 400
HTTP_404_NOT_FOUND == 404
HTTP_500_INTERNAL_SERVER_ERROR == 500
HTTP_503_SERVICE_UNAVAILABLE == 503

ErrorResponse_Ok(exc) ==
    Response(HTTP_200_OK, <<"Failed to get response from AI service: ", exc.msg>>, <<>>)

ErrorResponse_AllUnavailable(exc) ==
    Response(HTTP_503_SERVICE_UNAVAILABLE,
             <<"Failed to get response from AI service: ", exc.msg>>, <<>>)

\* The except clauses of add_message: the response to an exception.
ErrorResponse(exc) ==
    IF exc.kind \in {"ValueError", "RequestException"}
    THEN Response(HTTP_503_SERVICE_UNAVAILABLE,
                  <<"Failed to get response from AI service: ", exc.msg>>, <<>>)
    ELSE Response(HTTP_500_INTERNAL_SERVER_ERROR,
                  <<"An unexpected server error occurred.">>, <<>>)

\* A request slot: its position, the request (user, session, data), and the
\* handler's locals user_message, client, ai_response_content, ai_message
\* (messages by id, 0 when not created), e (the exception an except clause
\* caught), and the response returned.
IdleTurn == [pc |-> "Idle", user |-> "", session |-> 0, data |-> <<>>,
             user_message |-> 0, client |-> NoClient, ai_response_content |-> None,
             ai_message |-> 0, e |-> NoExc, response |-> NoResponse]

NewMessage_NoTimestamp(s, role, content, now) ==
    [id |-> Len(messages) + 1, session |-> s, role |-> role, content |-> content,
     timestamp |-> 0]

\* ChatMessage.objects.create(session, role, content) at time now
NewMessage(s, role, content, now) ==
    [id |-> Len(messages) + 1, session |-> s, role |-> role, content |-> content,
     timestamp |-> now]

\* add_message, line 89: is_valid(raise_exception=True) raised; the 400
\* response is returned and nothing is written.
RejectTurn(t, u, s, data) ==
    /\ turn' = [turn EXCEPT ![t] = [@ EXCEPT !.pc = "Rejected", !.user = u,
                   !.session = s, !.data = data,
                   !.response = Response(HTTP_400_BAD_REQUEST,
                                         <<"This field may not be blank.">>, <<>>)]]
    /\ UNCHANGED <<messages, clock, sessions>>

PersistUserMessage_Touch(t, u, s, data) ==
    /\ clock' = clock + 2
    /\ messages' = Append(messages,
                          [id |-> Len(messages) + 1, session |-> s, role |-> "user",
                           content |-> Strip(data), timestamp |-> clock + 1])
    /\ sessions' = [sessions EXCEPT ![s].updated_at = clock + 2]
    /\ turn' = [turn EXCEPT ![t] = [@ EXCEPT !.pc = "UserPersisted", !.user = u,
                   !.session = s, !.data = data, !.user_message = Len(messages) + 1]]

\* add_message, lines 90-101: the user message is created with the validated
\* content; the session row is not written.
PersistUserMessage(t, u, s, data) ==
    /\ clock' = clock + 1
    /\ messages' = Append(messages,
                          NewMessage(s, "user", ValidateContent(data).val, clock + 1))
    /\ turn' = [turn EXCEPT ![t] = [@ EXCEPT !.pc = "UserPersisted", !.user = u,
                   !.session = s, !.data = data, !.user_message = Len(messages) + 1]]
    /\ UNCHANGED sessions

\* add_message, lines 85-101: get_object (a session of another user is a 404
\* before anything else happens), validation, the user message.
ReceiveTurn(t, u, s, data) ==
    /\ turn[t].pc = "Idle"
    /\ \A t2 \in Turns : t2 < t => turn[t2].pc # "Idle"
    /\ sessions[s].user = u
    /\ IF ~ValidateContent(data).some
       THEN RejectTurn(t, u, s, data)
       ELSE PersistUserMessage(t, u, s, data)
    /\ UNCHANGED <<keys, settings_keys, environ_keys, calls, key_ops, resolved, last_call>>

FailBeforeCall_Touch(t, client, exc) ==
    /\ turn' = [turn EXCEPT ![t] = [@ EXCEPT !.pc = "Failed", !.client = client,
                                      !.e = exc, !.response = ErrorResponse(exc)]]
    /\ clock' = clock + 1
    /\ sessions' = [sessions EXCEPT ![turn[t].session].updated_at = clock + 1]
    /\ UNCHANGED <<calls, messages>>

\* add_message, lines 135-143, for an exception raised before the post
\* (get_ai_client, or the empty-payload check): the error response; nothing
\* else is written.
FailBeforeCall(t, client, exc) ==
    /\ turn' = [turn EXCEPT ![t] = [@ EXCEPT !.pc = "Failed", !.client = client,
                                      !.e = exc, !.response = ErrorResponse(exc)]]
    /\ UNCHANGED <<calls, sessions, messages, clock>>

\* add_message, lines 105-108 up to the outbound post: get_ai_client builds
\* the client (it reads the credential tables only), then get_completion
\* evaluates the history queryset in format_messages and call_api posts the
\* formatted body with the client's key.
ConstructAndCall(t, lookup_raises) ==
    /\ LET got == GetAiClient(turn[t].user, sessions[turn[t].session].ai_model_identifier,
                              lookup_raises)
           history == MessagesHistory(turn[t].session)
           body == FormatMessages(got.client.service_name, history)
       IN IF got.exc.kind # "none"
          THEN FailBeforeCall(t, NoClient, got.exc)
          ELSE IF FormattedIsEmpty(got.client.service_name, body)
          THEN FailBeforeCall(t, got.client,
                              Exc("ValueError", "Message formatting resulted in empty payload."))
          ELSE /\ turn' = [turn EXCEPT ![t] = [@ EXCEPT !.pc = "Completing",
                                                 !.client = got.client]]
               /\ calls' = Append(calls, [turn |-> t,
                                          service_name |-> got.client.service_name,
                                          api_key |-> got.client.api_key,
                                          history |-> history,
                                          body |-> body])
               /\ UNCHANGED <<sessions, messages, clock>>
    /\ UNCHANGED <<keys, settings_keys, environ_keys, key_ops, resolved, last_call>>

\* add_message, lines 101-108 in one step: line 101 only builds the lazy
\* queryset (no query runs before format_messages iterates it), so the
\* position after it is not kept apart from UserPersisted.
CallApi(t, lookup_raises) ==
    /\ turn[t].pc = "UserPersisted"
    /\ ConstructAndCall(t, lookup_raises)

LoadHistory_Skip(t) ==
    /\ turn[t].pc = "UserPersisted"
    /\ turn' = [turn EXCEPT ![t].pc = "Completing"]
    /\ UNCHANGED <<keys, settings_keys, environ_keys, sessions, messages, clock, calls,
                   key_ops, resolved, last_call>>

\* add_message, line 101, as a step of its own: messages_history is bound to
\* the session's queryset ordered by timestamp; no table is read or written.
LoadHistory(t) ==
    /\ turn[t].pc = "UserPersisted"
    /\ turn' = [turn EXCEPT ![t].pc = "HistoryLoaded"]
    /\ UNCHANGED <<keys, settings_keys, environ_keys, sessions, messages, clock, calls,
                   key_ops, resolved, last_call>>

\* add_message, lines 105-108 up to the outbound post, from the position
\* after line 101.
CallApiLoaded(t, lookup_raises) ==
    /\ turn[t].pc = "HistoryLoaded"
    /\ ConstructAndCall(t, lookup_raises)

FailAfterCall_Rollback(t, exc) ==
    /\ turn' = [turn EXCEPT ![t] = [@ EXCEPT !.pc = "Failed", !.e = exc,
                                      !.response = ErrorResponse(exc)]]
    /\ messages' = SelectSeq(messages, LAMBDA m : m.id # turn[t].user_message)
    /\ UNCHANGED <<clock, sessions>>

\* add_message, lines 135-150, for an exception raised by get_completion: the
\* error response; no row is written or removed.
FailAfterCall(t, exc) ==
    /\ turn' = [turn EXCEPT ![t] = [@ EXCEPT !.pc = "Failed", !.e = exc,
                                      !.response = ErrorResponse(exc)]]
    /\ UNCHANGED <<messages, clock, sessions>>

PersistAssistant_NoTouch(t, text) ==
    LET ai_message == NewMessage(turn[t].session, "assistant", text.val, clock + 1)
    IN /\ clock' = clock + 1
       /\ messages' = Append(messages, ai_message)
       /\ UNCHANGED sessions
       /\ turn' = [turn EXCEPT ![t] = [@ EXCEPT !.pc = "Completed",
                      !.ai_response_content = text,
                      !.ai_message = ai_message.id,
                      !.response = Response(HTTP_201_CREATED, <<>>,
                                            <<messages[turn[t].user_message], ai_message>>)]]

\* add_message, lines 112-123: the assistant message is created, the
\* session's updated_at is set to a later now() and saved, and both new
\* messages are returned, the user's first.
PersistAssistant(t, text) ==
    LET ai_message == NewMessage(turn[t].session, "assistant", text.val, clock + 1)
    IN /\ clock' = clock + 2
       /\ messages' = Append(messages, ai_message)
       /\ sessions' = [sessions EXCEPT ![turn[t].session].updated_at = clock + 2]
       /\ turn' = [turn EXCEPT ![t] = [@ EXCEPT !.pc = "Completed",
                      !.ai_response_content = text,
                      !.ai_message = ai_message.id,
                      !.response = Response(HTTP_201_CREATED, <<>>,
                                            <<messages[turn[t].user_message], ai_message>>)]]

ReturnAbsent_DropUser(t, text) ==
    /\ turn' = [turn EXCEPT ![t] = [@ EXCEPT !.pc = "AIAbsent",
                   !.ai_response_content = text,
                   !.response = Response(HTTP_200_OK,
                                         <<"AI did not return a response.">>,
                                         <<messages[turn[t].user_message]>>)]]
    /\ messages' = SelectSeq(messages, LAMBDA m : m.id # turn[t].user_message)
    /\ UNCHANGED <<clock, sessions>>

\* add_message, lines 124-133: no assistant message; the user message is
\* returned with an explanation and status 200.
ReturnAbsent(t, text) ==
    /\ turn' = [turn EXCEPT ![t] = [@ EXCEPT !.pc = "AIAbsent",
                   !.ai_response_content = text,
                   !.response = Response(HTTP_200_OK,
                                         <<"AI did not return a response.">>,
                                         <<messages[turn[t].user_message]>>)]]
    /\ UNCHANGED <<messages, clock, sessions>>

HandleCompletion_AlwaysPersist(t, outcome) ==
    IF outcome.exc.kind # "none" THEN FailAfterCall(t, outcome.exc)
    ELSE PersistAssistant(t, outcome.text)

\* add_message, lines 108-150, on the outcome of get_completion: an
\* exception, a truthy text ("if ai_response_content"), or no text.
HandleCompletion(t, outcome) ==
    IF outcome.exc.kind # "none" THEN FailAfterCall(t, outcome.exc)
    ELSE IF Truthy(outcome.text) THEN PersistAssistant(t, outcome.text)
    ELSE ReturnAbsent(t, outcome.text)

TransportFails_Retry(t, e) ==
    /\ turn[t].pc = "Completing"
    /\ calls' = Append(calls, calls[CHOOSE i \in 1..Len(calls) : calls[i].turn = t])
    /\ UNCHANGED <<keys, settings_keys, environ_keys, sessions, messages, clock, turn,
                   key_ops, resolved, last_call>>

\* call_api raises: the post timed out, failed, or returned a non-2xx status.
TransportFails(t, e) ==
    /\ turn[t].pc = "Completing"
    /\ HandleCompletion(t, Raised("RequestException", e))
    /\ UNCHANGED <<keys, settings_keys, environ_keys, calls, key_ops, resolved, last_call>>

\* call_api returns the JSON body r, and parse_response runs on it.
ProviderReplies(t, r) ==
    /\ turn[t].pc = "Completing"
    /\ HandleCompletion(t, ParseResponse(turn[t].client.service_name, r))
    /\ UNCHANGED <<keys, settings_keys, environ_keys, calls, key_ops, resolved, last_call>>

\* ProviderReplies, with the body call_api returned (raw_response in
\* get_completion) and the outcome of parse_response kept as last_call.
ReplyParsed(t, r) ==
    /\ turn[t].pc = "Completing"
    /\ HandleCompletion(t, ParseResponse(turn[t].client.service_name, r))
    /\ last_call' = [fn |-> "parse_response", turn |-> t,
                     service_name |-> turn[t].client.service_name,
                     response_data |-> r,
                     out |-> ParseResponse(turn[t].client.service_name, r)]
    /\ UNCHANGED <<keys, settings_keys, environ_keys, calls, key_ops, resolved>>

\* ------------------------------------------------- the credential endpoint
\* Plaintext keys a user posts.
RawKeys == {"k1"}
\* The api_key field of a request: absent, blank, or a plaintext.
RequestKeys == {NoKey, Key("")} \cup { Key(k) : k \in RawKeys }

\* The last operation was not a resolver call.
NotResolved == [called |-> FALSE, user |-> "", service_name |-> "",
                lookup_raises |-> FALSE, exc |-> NoExc, key |-> NoKey]

\* No direct call was made.
NoCall == [fn |-> "none"]

SetApiKey_Unencrypted(raw_key) ==
    IF raw_key = "" THEN [exc |-> Exc("ValueError", "API key cannot be empty."), row |-> NoRow]
    ELSE [exc |-> NoExc, row |-> Row(raw_key, "plain")]

\* UserAPIKey.set_api_key(raw_key): ValueError on an empty raw_key, else the
\* row with the encrypted key.
SetApiKey(raw_key) ==
    IF raw_key = "" THEN [exc |-> Exc("ValueError", "API key cannot be empty."), row |-> NoRow]
    ELSE [exc |-> NoExc, row |-> Encrypt(raw_key)]

\* UserAPIKey.save() on an instance whose stored row is row (NoRow: no pk
\* yet), with _raw_api_key_to_encrypt = raw when raw.some: the exception
\* raised and the row stored afterwards.
UserAPIKeySave(row, raw) ==
    IF ~row.exists /\ ~raw.some
    THEN [exc |-> Exc("ValidationError",
                      "Use set_api_key() to provide the key before saving a new UserAPIKey."),
          row |-> row]
    ELSE IF raw.some
    THEN (IF SetApiKey(raw.val).exc.kind # "none"
          THEN [exc |-> SetApiKey(raw.val).exc, row |-> row]
          ELSE [exc |-> NoExc, row |-> SetApiKey(raw.val).row])
    ELSE [exc |-> NoExc, row |-> row]

\* UserAPIKeySerializer.create(validated_data)
SerializerCreate(api_key) == UserAPIKeySave(NoRow, api_key)

\* UserAPIKeySerializer.update(instance, validated_data): a truthy api_key
\* goes through set_api_key, then the instance is saved.
SerializerUpdate(row, api_key) ==
    IF TruthyKey(api_key)
    THEN (IF SetApiKey(api_key.val).exc.kind # "none"
          THEN [exc |-> SetApiKey(api_key.val).exc, row |-> row]
          ELSE UserAPIKeySave(SetApiKey(api_key.val).row, NoKey))
    ELSE UserAPIKeySave(row, NoKey)

\* The api_key field, CharField(write_only=True, required=True): is_valid
\* fails on a blank value, and on an absent one unless the update is partial.
ApiKeyIsValid(api_key, partial) ==
    IF ~api_key.some THEN partial ELSE api_key.val # ""

ServiceDisplay(s) ==
    IF s = "openai" THEN "OpenAI" ELSE IF s = "anthropic" THEN "Anthropic" ELSE "Google Gemini"

NoData == [detail |-> "none"]

\* UserAPIKeySerializer.to_representation: the readable fields of Meta.fields
\* (user is a HiddenField and api_key write-only: neither is output) and
\* service_display.
ToRepresentation(u, s, row) ==
    [id |-> "pk", service_name |-> s, created_at |-> "auto_now_add",
     updated_at |-> "auto_now", service_display |-> ServiceDisplay(s)]

\* The request served and the response returned, as last_call holds them.
KeyResponse(fn, u, s, api_key, status, exc, data) ==
    [fn |-> fn, user |-> u, service_name |-> s, api_key |-> api_key, status |-> status,
     exc |-> exc, data |-> data]

\* UserAPIKeyViewSet create -> UserAPIKeySerializer.create -> UserAPIKey.save:
\* 400 when api_key is missing or blank or the user already has a key of the
\* service (unique_together), else the row is written with the encrypted key
\* and its representation returned.
KeyCreate(u, s, api_key) ==
    /\ key_ops < MaxKeyOps
    /\ IF ~ApiKeyIsValid(api_key, FALSE) \/ keys[<<u, s>>].exists
       THEN /\ last_call' = KeyResponse("create", u, s, api_key, HTTP_400_BAD_REQUEST,
                                        NoExc, NoData)
            /\ UNCHANGED keys
       ELSE LET saved == SerializerCreate(api_key)
            IN /\ keys' = [keys EXCEPT ![<<u, s>>] = saved.row]
               /\ last_call' = KeyResponse("create", u, s, api_key, HTTP_201_CREATED,
                                           saved.exc, ToRepresentation(u, s, saved.row))
    /\ key_ops' = key_ops + 1
    /\ resolved' = NotResolved
    /\ UNCHANGED <<settings_keys, environ_keys, sessions, messages, clock, turn, calls>>

\* UserAPIKeyViewSet update / partial_update -> UserAPIKeySerializer.update on
\* the user's own row: 404 without a row, 400 on an invalid api_key, else a
\* truthy api_key replaces the encrypted key.
KeyUpdate(u, s, api_key, partial) ==
    /\ key_ops < MaxKeyOps
    /\ IF ~keys[<<u, s>>].exists
       THEN /\ last_call' = KeyResponse("update", u, s, api_key, HTTP_404_NOT_FOUND,
                                        NoExc, NoData)
            /\ UNCHANGED keys
       ELSE IF ~ApiKeyIsValid(api_key, partial)
       THEN /\ last_call' = KeyResponse("update", u, s, api_key, HTTP_400_BAD_REQUEST,
                                        NoExc, NoData)
            /\ UNCHANGED keys
       ELSE LET saved == SerializerUpdate(keys[<<u, s>>], api_key)
            IN /\ keys' = [keys EXCEPT ![<<u, s>>] = saved.row]
               /\ last_call' = KeyResponse("update", u, s, api_key, HTTP_200_OK,
                                           saved.exc, ToRepresentation(u, s, saved.row))
    /\ key_ops' = key_ops + 1
    /\ resolved' = NotResolved
    /\ UNCHANGED <<settings_keys, environ_keys, sessions, messages, clock, turn, calls>>

\* UserAPIKeyViewSet destroy on the user's own row.
KeyDestroy(u, s) ==
    /\ key_ops < MaxKeyOps
    /\ keys[<<u, s>>].exists
    /\ keys' = [keys EXCEPT ![<<u, s>>] = NoRow]
    /\ last_call' = KeyResponse("destroy", u, s, NoKey, HTTP_204_NO_CONTENT, NoExc, NoData)
    /\ key_ops' = key_ops + 1
    /\ resolved' = NotResolved
    /\ UNCHANGED <<settings_keys, environ_keys, sessions, messages, clock, turn, calls>>

\* UserAPIKeyViewSet retrieve on the user's own row: its representation.
KeyRetrieve(u, s) ==
    /\ keys[<<u, s>>].exists
    /\ last_call' = KeyResponse("retrieve", u, s, NoKey, HTTP_200_OK, NoExc,
                                ToRepresentation(u, s, keys[<<u, s>>]))
    /\ resolved' = NotResolved
    /\ UNCHANGED <<keys, settings_keys, environ_keys, sessions, messages, clock, turn,
                   calls, key_ops>>

\* UserAPIKey(user=u, service_name=s).save() called on a new instance
\* outside the serializer, with or without _raw_api_key_to_encrypt set (the
\* admin's add form saves without it).
ModelSave(u, s, raw) ==
    /\ key_ops < MaxKeyOps
    /\ ~keys[<<u, s>>].exists
    /\ LET saved == UserAPIKeySave(NoRow, raw)
       IN /\ keys' = [keys EXCEPT ![<<u, s>>] = saved.row]
          /\ last_call' = KeyResponse("save", u, s, raw, 0, saved.exc, NoData)
    /\ key_ops' = key_ops + 1
    /\ resolved' = NotResolved
    /\ UNCHANGED <<settings_keys, environ_keys, sessions, messages, clock, turn, calls>>

\* A call get_api_key_for_service(u, s), as BaseAIClient.__init__ makes it.
Resolve(u, s, lookup_raises) ==
    /\ LET got == GetApiKeyForService(u, s, lookup_raises)
       IN resolved' = [called |-> TRUE, user |-> u, service_name |-> s,
                       lookup_raises |-> lookup_raises, exc |-> got.exc, key |-> got.key]
    /\ last_call' = [fn |-> "get_api_key_for_service"]
    /\ UNCHANGED <<keys, settings_keys, environ_keys, sessions, messages, clock, turn,
                   calls, key_ops>>

\* Model identifiers handed to the factory: those of the sessions, and
\* identifiers without a separator, with two separators, starting with the
\* separator, empty, and with a provider token in another case.
FactoryModelIds == ModelIds \cup { <<"openai">>, <<"_", "gpt-4">>, <<>>,
                                   <<"OpenAI", "_", "gpt-4">>,
                                   <<"google", "_", "gemini", "_", "pro">> }

\* ChatMessage.ROLE_CHOICES, and the contents of the stored histories.
ROLE_CHOICES == {"system", "user", "assistant"}
HistoryContents == { <<"a">>, <<"b">> }

\* The ChatMessage rows of session s holding the messages of h, created one
\* after the other.
StoredHistory(s, h) ==
    [i \in 1..Len(h) |-> [id |-> i, session |-> s, role |-> h[i][1], content |-> h[i][2],
                          timestamp |-> i]]

\* A direct call format_messages(session.messages.order_by('timestamp')) on
\* the client of a provider.
FormatMessagesCall(service_name, s) ==
    /\ last_call' = [fn |-> "format_messages", service_name |-> service_name,
                     history |-> MessagesHistory(s),
                     out |-> FormatMessages(service_name, MessagesHistory(s))]
    /\ UNCHANGED <<keys, settings_keys, environ_keys, sessions, messages, clock, turn,
                   calls, key_ops, resolved>>

\* A direct call get_ai_client(u, model_identifier).
GetAiClientCall(u, model_identifier, lookup_raises) ==
    /\ last_call' = [fn |-> "get_ai_client", user |-> u,
                     model_identifier |-> model_identifier,
                     out |-> GetAiClient(u, model_identifier, lookup_raises)]
    /\ UNCHANGED <<keys, settings_keys, environ_keys, sessions, messages, clock, turn,
                   calls, key_ops, resolved>>

\* ------------------------------------------------------------ specification
NewSession(user, model_identifier) ==
    [user |-> user, title |-> "New Chat", ai_model_identifier |-> model_identifier,
     created_at |-> 0, updated_at |-> 0]

\* The credential situations of the session's owner: alice's own key (a
\* system key is configured too), bob's undecryptable row with a system key in
\* the environment, carol without any key.
Owners == { [user |-> "alice", profile |-> "settings"],
            [user |-> "bob", profile |-> "environ"],
            [user |-> "carol", profile |-> "neither"] }

Init ==
    /\ keys = InitialKeys
    /\ \E o \in Owners, mid \in ModelIds :
          /\ settings_keys = SettingsOf(o.profile)
          /\ environ_keys = EnvironOf(o.profile)
          /\ sessions = [s \in Sessions |-> NewSession(o.user, mid)]
    /\ messages = <<>>
    /\ clock = 0
    /\ turn = [t \in Turns |-> IdleTurn]
    /\ calls = <<>>
    /\ key_ops = 0
    /\ resolved = NotResolved
    /\ last_call = NoCall

\* The credential resolver under every system configuration, with the
\* credential table changing through the credential endpoint.
InitKeys ==
    /\ keys = InitialKeys
    /\ \E profile \in SystemProfiles :
          /\ settings_keys = SettingsOf(profile)
          /\ environ_keys = EnvironOf(profile)
    /\ sessions = [s \in Sessions |-> NewSession("alice", <<"openai", "_", "gpt-4">>)]
    /\ messages = <<>>
    /\ clock = 0
    /\ turn = [t \in Turns |-> IdleTurn]
    /\ calls = <<>>
    /\ key_ops = 0
    /\ resolved = NotResolved
    /\ last_call = NoCall

NextKeys ==
    \/ \E u \in Users, s \in SERVICE_CHOICES, api_key \in RequestKeys : KeyCreate(u, s, api_key)
    \/ \E u \in Users, s \in SERVICE_CHOICES, api_key \in RequestKeys, partial \in BOOLEAN :
          KeyUpdate(u, s, api_key, partial)
    \/ \E u \in Users, s \in SERVICE_CHOICES : KeyDestroy(u, s)
    \/ \E u \in Users, s \in SERVICE_CHOICES : KeyRetrieve(u, s)
    \/ \E u \in Users, s \in SERVICE_CHOICES, raw \in RequestKeys : ModelSave(u, s, raw)
    \/ \E u \in Users, s \in SERVICE_CHOICES, lookup_raises \in BOOLEAN :
          Resolve(u, s, lookup_raises)

SpecKeys == InitKeys /\ [][NextKeys]_vars

\* The client factory called directly, under every system configuration.
NextFactory ==
    \E u \in Users, model_identifier \in FactoryModelIds, lookup_raises \in BOOLEAN :
        GetAiClientCall(u, model_identifier, lookup_raises)

SpecFactory == InitKeys /\ [][NextFactory]_vars

\* The formatters called directly on a stored history of any roles (the
\* admin site creates and edits ChatMessage rows of every role).
InitFormat ==
    /\ keys = InitialKeys
    /\ settings_keys = SettingsOf("settings")
    /\ environ_keys = EnvironOf("settings")
    /\ sessions = [s \in Sessions |-> NewSession("alice", <<"google", "_", "gemini-pro">>)]
    /\ \E n \in 0..MaxHistory : \E h \in [1..n -> ROLE_CHOICES \X HistoryContents] :
          /\ messages = StoredHistory(1, h)
          /\ clock = n
    /\ turn = [t \in Turns |-> IdleTurn]
    /\ calls = <<>>
    /\ key_ops = 0
    /\ resolved = NotResolved
    /\ last_call = NoCall

NextFormat ==
    \E service_name \in SERVICE_CHOICES, s \in Sessions : FormatMessagesCall(service_name, s)

SpecFormat == InitFormat /\ [][NextFormat]_vars

Next ==
    \/ \E t \in Turns, u \in Users, s \in Sessions, data \in RequestContents :
          ReceiveTurn(t, u, s, data)
    \/ \E t \in Turns, lookup_raises \in BOOLEAN : CallApi(t, lookup_raises)
    \/ \E t \in Turns, e \in TransportErrors : TransportFails(t, e)
    \/ \E t \in Turns : \E r \in Responses(turn[t].client.service_name) : ProviderReplies(t, r)

Spec == Init /\ [][Next]_vars

\* The turns of one conversation whose owner has a key of every provider:
\* the interleavings of add_message on the message table, under every model
\* identifier (the unsupported one included, whose turns fail before a call).
\* The provider's part is reduced to what the message table depends on: the
\* key row is found, the post times out, or it returns a body that parses
\* (to a text or to none).
InitConversation == Init /\ \A s \in Sessions : sessions[s].user = "alice"

ConversationReplies(service_name) ==
    { r \in Responses(service_name) : ParseResponse(service_name, r).exc = NoExc }

NextConversation ==
    \/ \E t \in Turns, u \in Users, s \in Sessions, data \in RequestContents :
          ReceiveTurn(t, u, s, data)
    \/ \E t \in Turns : CallApi(t, FALSE)
    \/ \E t \in Turns : TransportFails(t, "Timeout")
    \/ \E t \in Turns : \E r \in ConversationReplies(turn[t].client.service_name) :
          ProviderReplies(t, r)

SpecConversation == InitConversation /\ [][NextConversation]_vars

\* The chat turn, with each provider reply and its parse kept observable.
NextParse ==
    \/ \E t \in Turns, u \in Users, s \in Sessions, data \in RequestContents :
          ReceiveTurn(t, u, s, data)
    \/ \E t \in Turns, lookup_raises \in BOOLEAN : CallApi(t, lookup_raises)
    \/ \E t \in Turns, e \in TransportErrors : TransportFails(t, e)
    \/ \E t \in Turns : \E r \in Responses(turn[t].client.service_name) : ReplyParsed(t, r)

SpecParse == Init /\ [][NextParse]_vars

\* The progress of a turn, position by position: line 101 is a step of its
\* own, the request handler runs on (weak fairness of its local steps), and
\* requests.post returns or raises (timeout=90): the outbound call does not
\* block for ever.
LiveTurns == 1..MaxLiveTurns
OutboundCallEnds(t) ==
    \/ \E e \in TransportErrors : TransportFails(t, e)
    \/ \E r \in Responses(turn[t].client.service_name) : ProviderReplies(t, r)

NextTurn ==
    \/ \E t \in LiveTurns, u \in Users, s \in Sessions, data \in RequestContents :
          ReceiveTurn(t, u, s, data)
    \/ \E t \in LiveTurns : LoadHistory(t)
    \/ \E t \in LiveTurns, lookup_raises \in BOOLEAN : CallApiLoaded(t, lookup_raises)
    \/ \E t \in LiveTurns : OutboundCallEnds(t)

SpecTurn ==
    /\ Init
    /\ [][NextTurn]_vars
    /\ \A t \in LiveTurns :
          /\ WF_vars(LoadHistory(t))
          /\ WF_vars(\E lookup_raises \in BOOLEAN : CallApiLoaded(t, lookup_raises))
          /\ WF_vars(OutboundCallEnds(t))

\* ================================================================== claims
\* Vocabulary of the claims, stated on the tables and the responses.
StoredWithId(id) == { i \in 1..Len(messages) : messages[i].id = id }
IsStored(id, s, role) ==
    \E i \in StoredWithId(id) : messages[i].session = s /\ messages[i].role = role
AssistantRows == { i \in 1..Len(messages) : messages[i].role = "assistant" }
CompletedTurns == { t \in Turns : turn[t].pc = "Completed" }
CallsOf(t) == { i \in 1..Len(calls) : calls[i].turn = t }
IsBlank(text) == \A i \in 1..Len(text) : text[i] \in {" ", "\n"}
ServiceOf(t) == ExtractServiceName(sessions[turn[t].session].ai_model_identifier)

\* The key a user's own row decrypts to, read off the table.
OwnKey(u, s) ==
    IF keys[<<u, s>>].exists /\ keys[<<u, s>>].fk = FernetKey
    THEN Key(keys[<<u, s>>].plain) ELSE NoKey
\* The configured system key of a service, read off settings and environment.
ConfiguredKey(s) ==
    IF settings_keys[s].some THEN settings_keys[s] ELSE environ_keys[s]
HasAnyKey(u, s) == TruthyKey(OwnKey(u, s)) \/ TruthyKey(ConfiguredKey(s))

\* C1: a turn that ended Failed has its user message in the message store,
\* with the content it submitted, and no assistant message: none is recorded
\* for the turn, and the store holds one assistant message per Completed turn.
C1_FailedKeepsUserMessage ==
    \A t \in Turns : turn[t].pc = "Failed" =>
        /\ IsStored(turn[t].user_message, turn[t].session, "user")
        /\ \A i \in StoredWithId(turn[t].user_message) :
              messages[i].content = Strip(turn[t].data)
        /\ turn[t].ai_message = 0
        /\ Cardinality(AssistantRows) = Cardinality(CompletedTurns)

\* C1 witness: a turn failed with the unexpected-exception response while its
\* user message is stored.
C1_Witness ==
    \E t \in Turns :
        /\ turn[t].pc = "Failed"
        /\ turn[t].response.status = HTTP_500_INTERNAL_SERVER_ERROR
        /\ IsStored(turn[t].user_message, turn[t].session, "user")

\* C2: a request whose content is empty (blank after trimming) is rejected
\* with status 400 in a step that writes no message, builds no client, issues
\* no outbound call and leaves the session unchanged; a rejected request does
\* nothing afterwards.
C2_EmptyContentRejected ==
    [][\A t \in Turns :
          /\ (turn[t].pc = "Idle" /\ turn'[t].pc # "Idle" /\ IsBlank(turn'[t].data)) =>
                /\ turn'[t].pc = "Rejected"
                /\ turn'[t].response.status = HTTP_400_BAD_REQUEST
                /\ turn'[t].user_message = 0 /\ turn'[t].ai_message = 0
                /\ turn'[t].client = NoClient
                /\ messages' = messages /\ sessions' = sessions /\ calls' = calls
          /\ turn[t].pc = "Rejected" => turn'[t] = turn[t]]_vars

\* C2 witness: a whitespace-only content was rejected while another turn of
\* the same session went through.
C2_Witness ==
    \E t, t2 \in Turns :
        /\ turn[t].pc = "Rejected" /\ turn[t].data = <<" ">>
        /\ turn[t2].pc = "Completed"
        /\ Len(messages) = 2

\* C3 (as claimed): the response of a Failed turn carries the persisted user
\* message, with a status other than the success statuses.
C3_FailedReturnsUserMessage ==
    \A t \in Turns : turn[t].pc = "Failed" =>
        /\ \E i \in 1..Len(turn[t].response.messages) :
              turn[t].response.messages[i].id = turn[t].user_message
        /\ turn[t].response.status \notin {HTTP_200_OK, HTTP_201_CREATED}

\* C3 (amended): the response of a Failed turn has status 503 or 500 and a
\* detail text, and carries no message; the user message is in the store.
C3_FailedReturnsDetailOnly ==
    \A t \in Turns : turn[t].pc = "Failed" =>
        /\ turn[t].response.status \in {HTTP_503_SERVICE_UNAVAILABLE,
                                        HTTP_500_INTERNAL_SERVER_ERROR}
        /\ turn[t].response.detail # <<>>
        /\ turn[t].response.messages = <<>>
        /\ IsStored(turn[t].user_message, turn[t].session, "user")

\* C3 witness: a turn failed after its outbound call, with status 503.
C3_Witness ==
    \E t \in Turns :
        /\ turn[t].pc = "Failed" /\ CallsOf(t) # {}
        /\ turn[t].response.status = HTTP_503_SERVICE_UNAVAILABLE

\* C4: a turn whose completion returned a non-empty text is Completed; a
\* Completed turn stored exactly one assistant message with that text, after
\* its user message, the session's updated_at is later than that message, and
\* the 201 response holds the user message and then the assistant message.
C4_CompletedPersistsReply ==
    \A t \in Turns :
        /\ (turn[t].pc \in {"Completed", "AIAbsent"} /\ Truthy(turn[t].ai_response_content))
              => turn[t].pc = "Completed"
        /\ turn[t].pc = "Completed" =>
              /\ Truthy(turn[t].ai_response_content)
              /\ Cardinality(StoredWithId(turn[t].ai_message)) = 1
              /\ Cardinality(StoredWithId(turn[t].user_message)) = 1
              /\ Cardinality(AssistantRows) = Cardinality(CompletedTurns)
              /\ \A i \in StoredWithId(turn[t].ai_message),
                    j \in StoredWithId(turn[t].user_message) :
                    /\ messages[i].role = "assistant" /\ messages[j].role = "user"
                    /\ messages[i].session = turn[t].session
                    /\ messages[i].content = turn[t].ai_response_content.val
                    /\ j < i /\ messages[j].timestamp < messages[i].timestamp
                    /\ sessions[turn[t].session].updated_at > messages[i].timestamp
                    /\ turn[t].response =
                          Response(HTTP_201_CREATED, <<>>, <<messages[j], messages[i]>>)

\* C4 witness: two turns of one session are both Completed.
C4_Witness ==
    \E t, t2 \in Turns :
        /\ t # t2 /\ turn[t].pc = "Completed" /\ turn[t2].pc = "Completed"
        /\ Len(messages) = 4

\* C5: a turn whose completion returned None or an empty text is AIAbsent; an
\* AIAbsent turn stored no assistant message, and answered 200 with an
\* explanation and the user message alone; no assistant message in the store
\* is blank after trimming.
C5_AbsentTextEndsAIAbsent ==
    /\ \A t \in Turns :
          /\ (turn[t].pc \in {"Completed", "AIAbsent"} /\ ~Truthy(turn[t].ai_response_content))
                => turn[t].pc = "AIAbsent"
          /\ turn[t].pc = "AIAbsent" =>
                /\ ~Truthy(turn[t].ai_response_content)
                /\ turn[t].ai_message = 0
                /\ Cardinality(AssistantRows) = Cardinality(CompletedTurns)
                /\ turn[t].response.status = HTTP_200_OK
                /\ turn[t].response.status # HTTP_201_CREATED
                /\ turn[t].response.detail # <<>>
                /\ Len(turn[t].response.messages) = 1
                /\ turn[t].response.messages[1].id = turn[t].user_message
                /\ turn[t].response.messages[1].role = "user"
    /\ \A i \in AssistantRows : ~IsBlank(messages[i].content)

\* C5 witness: the Google client returned a text that is empty after
\* trimming, and the turn is AIAbsent.
C5_Witness ==
    \E t \in Turns :
        /\ turn[t].pc = "AIAbsent"
        /\ turn[t].ai_response_content = Some(<<>>)
        /\ turn[t].client.service_name = "google"

\* C6 (as claimed): every step that appends a message to a session changes
\* that session's updated_at.
C6_AppendChangesUpdatedAt ==
    [][Len(messages') > Len(messages) =>
          LET s == messages'[Len(messages')].session
          IN sessions'[s].updated_at # sessions[s].updated_at]_vars

\* C6 (amended): updated_at is written exactly by the steps that append an
\* assistant message, and is then later than that message; a step that
\* appends a user message, and every other step, leaves the session row as
\* it was.
C6_OnlyAssistantAppendTouches ==
    [][IF Len(messages') > Len(messages) /\ messages'[Len(messages')].role = "assistant"
       THEN LET m == messages'[Len(messages')]
            IN /\ sessions'[m.session].updated_at > sessions[m.session].updated_at
               /\ sessions'[m.session].updated_at > m.timestamp
       ELSE sessions' = sessions]_vars

\* C6 witness: a turn that appended only its user message has ended (AIAbsent
\* or Failed) and the session's updated_at is still its creation value.
C6_Witness ==
    \E t, t2 \in Turns :
        /\ turn[t].pc = "AIAbsent" /\ turn[t2].pc = "Failed"
        /\ Len(messages) = 2
        /\ sessions[turn[t].session].updated_at = sessions[turn[t].session].created_at

\* C7: when the session's provider token is unsupported or no credential is
\* available, the step after UserPersisted fails the turn; and every turn
\* that fails without a client does so with status 503, in a step that issues
\* no outbound call and leaves the session row (updated_at, title, model
\* identifier) and the messages unchanged.
C7_ConstructionFailure ==
    [][\A t \in Turns :
          (turn[t].pc = "UserPersisted" /\ turn'[t].pc # "UserPersisted") =>
             /\ (ServiceOf(t) \notin SERVICE_CHOICES \/ ~HasAnyKey(turn[t].user, ServiceOf(t)))
                   => (turn'[t].pc = "Failed" /\ turn'[t].client = NoClient)
             /\ (turn'[t].pc = "Failed" /\ turn'[t].client = NoClient) =>
                   /\ turn'[t].response.status = HTTP_503_SERVICE_UNAVAILABLE
                   /\ calls' = calls
                   /\ sessions' = sessions
                   /\ messages' = messages]_vars

\* C7 witness: turns failed at client construction for a missing credential
\* (a supported provider) with status 503 and without any outbound call.
C7_Witness ==
    \E t \in Turns :
        /\ turn[t].pc = "Failed" /\ turn[t].client = NoClient
        /\ ServiceOf(t) \in SERVICE_CHOICES
        /\ turn[t].response.status = HTTP_503_SERVICE_UNAVAILABLE
        /\ calls = <<>>

\* C8: a resolver call whose lookup finds a row that decrypts to a non-empty
\* secret returns that secret and raises nothing, whatever the system key is.
C8_UserKeyPreferred ==
    resolved.called =>
        LET row == keys[<<resolved.user, resolved.service_name>>]
        IN (~resolved.lookup_raises /\ row.exists /\ row.fk = FernetKey /\ row.plain # "")
              => (resolved.exc = NoExc /\ resolved.key = Key(row.plain))

\* C8 witness: the user's key was returned although a different system key
\* is configured for the service.
C8_Witness ==
    /\ resolved.called
    /\ resolved.key = Key(keys[<<resolved.user, resolved.service_name>>].plain)
    /\ keys[<<resolved.user, resolved.service_name>>].exists
    /\ TruthyKey(ConfiguredKey(resolved.service_name))
    /\ ConfiguredKey(resolved.service_name) # resolved.key

\* C9: a resolver call whose row fails to decrypt, or whose lookup raises,
\* raises nothing and returns the configured system key when that is
\* non-empty, and None otherwise.
C9_DecryptFailureFallsBack ==
    resolved.called =>
        LET row == keys[<<resolved.user, resolved.service_name>>]
        IN (resolved.lookup_raises \/ (row.exists /\ row.fk = RotatedKey)) =>
              /\ resolved.exc = NoExc
              /\ resolved.key = IF TruthyKey(ConfiguredKey(resolved.service_name))
                                THEN ConfiguredKey(resolved.service_name)
                                ELSE NoKey

\* C9 witness: the row does not decrypt and the system key was returned.
C9_Witness ==
    /\ resolved.called /\ ~resolved.lookup_raises
    /\ keys[<<resolved.user, resolved.service_name>>].fk = RotatedKey
    /\ TruthyKey(resolved.key)
    /\ resolved.key = ConfiguredKey(resolved.service_name)

\* C10: every client holds a non-empty key; every outbound call carries a
\* non-empty key that is the requesting user's decrypted key or the system
\* key of the session's provider; and a turn past client construction whose
\* user has neither key has failed without a client, with status 503.
C10_CallsCarryKey ==
    /\ \A i \in 1..Len(calls) :
          LET u == turn[calls[i].turn].user
              s == ServiceOf(calls[i].turn)
          IN /\ TruthyKey(calls[i].api_key)
             /\ calls[i].service_name = s
             /\ calls[i].api_key \in {OwnKey(u, s), ConfiguredKey(s)}
    /\ \A t \in Turns :
          /\ turn[t].client # NoClient => TruthyKey(turn[t].client.api_key)
          /\ (/\ turn[t].pc \notin {"Idle", "Rejected", "UserPersisted"}
              /\ ServiceOf(t) \in SERVICE_CHOICES
              /\ ~HasAnyKey(turn[t].user, ServiceOf(t)))
                => /\ turn[t].pc = "Failed" /\ turn[t].client = NoClient
                   /\ turn[t].response.status = HTTP_503_SERVICE_UNAVAILABLE
                   /\ CallsOf(t) = {}

\* C10 witness: a user whose own row does not decrypt completed a turn on an
\* OpenAI session, the call carrying the system key.
C10_Witness ==
    \E i \in 1..Len(calls) :
        /\ calls[i].service_name = "openai"
        /\ ~TruthyKey(OwnKey(turn[calls[i].turn].user, "openai"))
        /\ calls[i].api_key = ConfiguredKey("openai")
        /\ turn[calls[i].turn].pc = "Completed"

\* C11: get_ai_client dispatches on the text before the first '_' of the
\* model identifier: "openai", "anthropic" and "google" run the constructor
\* of the OpenAI, Anthropic and Google client, and a client that is built
\* serves that provider; every other token raises ValueError "Unsupported AI
\* service: <token>" with no client built and no resolver call made.
C11_FactoryDispatch ==
    last_call.fn = "get_ai_client" =>
        LET token == IF last_call.model_identifier = <<>> THEN ""
                     ELSE IF Head(last_call.model_identifier) = "_" THEN ""
                     ELSE Head(last_call.model_identifier)
            out == last_call.out
        IN /\ token = "openai" => out.cls = "OpenAIClient"
           /\ token = "anthropic" => out.cls = "AnthropicClient"
           /\ token = "google" => out.cls = "GoogleClient"
           /\ token \in {"openai", "anthropic", "google"} =>
                 /\ out.resolver_calls = <<ResolverCall(last_call.user, token)>>
                 /\ out.exc.kind = "none" =>
                       (out.client.service_name = token /\ TruthyKey(out.client.api_key))
                 /\ out.exc.kind # "none" => out.client = NoClient
           /\ token \notin {"openai", "anthropic", "google"} =>
                 /\ out.exc = Exc("ValueError", "Unsupported AI service: " \o token)
                 /\ out.cls = "none"
                 /\ out.client = NoClient
                 /\ out.resolver_calls = <<>>

\* C11 witness: a user who holds a key of her own and has system keys
\* configured called the factory with an unknown provider token, and no
\* credential was resolved.
C11_Witness ==
    /\ last_call.fn = "get_ai_client"
    /\ last_call.user = "alice"
    /\ last_call.model_identifier = <<"cohere", "_", "command">>
    /\ TruthyKey(ConfiguredKey("openai"))
    /\ last_call.out.exc.kind = "ValueError"
    /\ last_call.out.resolver_calls = <<>>

\* C12: a turn that failed on a ValueError or a requests RequestException
\* (transport errors are RequestException; provider-reported and parse
\* errors are ValueError) answered 503 with a detail that ends with the
\* exception's message; a turn that failed on any other exception answered
\* 500 with the fixed text, no part of which is the exception's message.
C12_ErrorClassification ==
    \A t \in Turns : turn[t].pc = "Failed" =>
        /\ turn[t].e.kind \in {"ValueError", "RequestException", "Exception"}
        /\ turn[t].e.kind \in {"ValueError", "RequestException"} =>
              /\ turn[t].response.status = HTTP_503_SERVICE_UNAVAILABLE
              /\ turn[t].response.detail =
                    <<"Failed to get response from AI service: ", turn[t].e.msg>>
        /\ turn[t].e.kind = "Exception" =>
              /\ turn[t].response.status = HTTP_500_INTERNAL_SERVER_ERROR
              /\ turn[t].response.detail = <<"An unexpected server error occurred.">>
              /\ \A i \in 1..Len(turn[t].response.detail) :
                    turn[t].response.detail[i] # turn[t].e.msg
        /\ (CallsOf(t) # {} /\ turn[t].e.msg \in TransportErrors) =>
              turn[t].e.kind = "RequestException"

\* C12 witness: one turn failed on a transport error with 503, another on an
\* exception that is neither class with 500.
C12_Witness ==
    \E t, t2 \in Turns :
        /\ turn[t].pc = "Failed" /\ turn[t].e = Exc("RequestException", "Timeout")
        /\ turn[t].response.status = HTTP_503_SERVICE_UNAVAILABLE
        /\ turn[t2].pc = "Failed" /\ turn[t2].e.kind = "Exception"
        /\ turn[t2].response.status = HTTP_500_INTERNAL_SERVER_ERROR

\* C13: a turn issues at most one outbound call: a call is issued only by
\* the step from UserPersisted to Completing, exactly one; the step that
\* receives the call's outcome (a timeout, an HTTP error, a provider error
\* payload, a parse failure, or a reply) issues no call and ends the turn, a
\* raise as Failed with the exception raised handed to the view's except
\* clause; an ended turn does nothing more.
C13_NoRetry ==
    [][\A t \in Turns :
          LET after == { i \in 1..Len(calls') : calls'[i].turn = t }
          IN /\ Cardinality(after) <= 1
             /\ after # CallsOf(t) =>
                   (turn[t].pc = "UserPersisted" /\ turn'[t].pc = "Completing")
             /\ (turn[t].pc = "Completing" /\ turn'[t] # turn[t]) =>
                   /\ calls' = calls
                   /\ turn'[t].pc \in {"Completed", "AIAbsent", "Failed"}
                   /\ turn'[t].pc = "Failed" =>
                         /\ turn'[t].e.kind # "none"
                         /\ turn'[t].response = ErrorResponse(turn'[t].e)
             /\ turn[t].pc \in {"Completed", "AIAbsent", "Failed", "Rejected"} =>
                   turn'[t] = turn[t]]_vars

\* C13 witness: one turn failed on a timeout and another on a provider error
\* payload, and two calls were issued in all.
C13_Witness ==
    \E t, t2 \in Turns :
        /\ turn[t].pc = "Failed" /\ turn[t].e = Exc("RequestException", "Timeout")
        /\ turn[t2].pc = "Failed" /\ turn[t2].e.kind = "ValueError"
        /\ Cardinality(CallsOf(t)) = 1 /\ Cardinality(CallsOf(t2)) = 1
        /\ Len(calls) = 2

NonSystemEntries(h) ==
    LET kept == SelectSeq(h, LAMBDA m : m.role \in {"user", "assistant"})
    IN [i \in 1..Len(kept) |-> [role |-> kept[i].role, content |-> kept[i].content]]
SystemIndexes(h) == { i \in 1..Len(h) : h[i].role = "system" }

\* C15: the Anthropic formatter raises nothing on any history; when the
\* first non-system message is not a user message, or there is none, it
\* still returns the body with the messages list and the system field, and
\* prints the warning; it prints the warning in no other case.
C15_AnthropicFormatNeverRaises ==
    (last_call.fn = "format_messages" /\ last_call.service_name = "anthropic") =>
        LET kept == NonSystemEntries(last_call.history)
            anomaly == kept = <<>> \/ kept[1].role # "user"
            out == last_call.out
        IN /\ out.exc = NoExc
           /\ {"messages", "system"} \subseteq DOMAIN out
           /\ anomaly => (out.warned /\ out.messages = kept)
           /\ out.warned => anomaly

\* C15 witness: the formatter returned a non-empty messages list that starts
\* with an assistant message, with the system text, and warned.
C15_Witness ==
    /\ last_call.fn = "format_messages" /\ last_call.service_name = "anthropic"
    /\ Len(last_call.out.messages) = 2
    /\ last_call.out.messages[1].role = "assistant"
    /\ last_call.out.system.some
    /\ last_call.out.warned /\ last_call.out.exc = NoExc

\* The formatted contents of the history without its last message.
GoogleContentsBeforeLast(h) == GoogleFormat(SubSeq(h, 1, Len(h) - 1)).messages
EndsWithTwoAssistants(h) ==
    Len(h) >= 2 /\ h[Len(h) - 1].role = "assistant" /\ h[Len(h)].role = "assistant"

\* C16 (as claimed): in the Google formatter an assistant message that
\* directly follows an assistant message is merged into the preceding
\* "model" turn: that turn's text gets a newline and the content appended,
\* and the number of turns is unchanged.
C16_ConsecutiveAssistantMerged ==
    (last_call.fn = "format_messages" /\ last_call.service_name = "google"
       /\ EndsWithTwoAssistants(last_call.history)) =>
        LET h == last_call.history
            before == GoogleContentsBeforeLast(h)
            n == Len(before)
        IN /\ n > 0
           /\ before[n].role = "model"
           /\ last_call.out.messages =
                 [before EXCEPT ![n].content = @ \o <<"\n">> \o h[Len(h)].content]

\* C16 (amended): an assistant message that directly follows an assistant
\* message never adds a turn. When a user message precedes it in the
\* history, the contents end with a "model" turn and the message is merged
\* into it (a newline and the content appended to its text); when no user
\* message precedes it, the contents are empty and the message is skipped.
C16_MergedIntoModelTurnIfAny ==
    (last_call.fn = "format_messages" /\ last_call.service_name = "google"
       /\ EndsWithTwoAssistants(last_call.history)) =>
        LET h == last_call.history
            before == GoogleContentsBeforeLast(h)
            n == Len(before)
            after == last_call.out.messages
        IN /\ Len(after) = n
           /\ (n > 0) <=> (\E i \in 1..Len(h) : h[i].role = "user")
           /\ IF n > 0
              THEN /\ before[n].role = "model"
                   /\ after = [before EXCEPT ![n].content = @ \o <<"\n">> \o h[Len(h)].content]
              ELSE after = <<>>

\* C16 witness: a user message and two assistant messages gave two turns,
\* the second the "model" turn with both texts joined by a newline.
C16_Witness ==
    /\ last_call.fn = "format_messages" /\ last_call.service_name = "google"
    /\ Len(last_call.history) = 3 /\ EndsWithTwoAssistants(last_call.history)
    /\ Len(last_call.out.messages) = 2
    /\ last_call.out.messages[2] = [role |-> "model", content |-> <<"a", "\n", "b">>]

\* The text a parse returned, None read as the empty text.
ReturnedText(out) == IF out.text.some THEN out.text.val ELSE <<>>
\* A Google body whose first candidate is not SAFETY-blocked and has the
\* expected shape: a content whose text parts are strings.
GoogleWellFormed(r) ==
    /\ r.shape = "dict" /\ r.candidates # <<>>
    /\ r.candidates[1].has_content
    /\ \A i \in 1..Len(r.candidates[1].parts) :
          r.candidates[1].parts[i].t \in {"str", "missing"}
GoogleSafetyBlocked(r) ==
    r.shape = "dict" /\ r.candidates # <<>> /\ r.candidates[1].finishReason = "SAFETY"
GoogleStringParts(r) ==
    LET kept == SelectSeq(r.candidates[1].parts, LAMBDA part : part.t = "str")
    IN [i \in 1..Len(kept) |-> kept[i].s]

\* C17 (as claimed): Google parse_response raises on a body without
\* candidates; raises the safety-block error, returning no text, when the
\* first candidate's finishReason is SAFETY; otherwise returns the candidate's
\* text parts joined by newlines and trimmed (an empty text as absent); and
\* raises the parse error "Failed to parse response from Google API." on
\* every malformed shape. The turn of a parse that raised is Failed and has
\* no assistant message.
C17_GoogleParse ==
    (last_call.fn = "parse_response" /\ last_call.service_name = "google") =>
        LET r == last_call.response_data
            out == last_call.out
            t == last_call.turn
        IN /\ r.candidates = <<>> => out.exc.kind # "none"
           /\ GoogleSafetyBlocked(r) =>
                 /\ out.exc = Exc("ValueError",
                                  "Google API response blocked due to safety concerns. Ratings: []")
                 /\ out.text = None
           /\ (GoogleWellFormed(r) /\ ~GoogleSafetyBlocked(r)) =>
                 /\ out.exc = NoExc
                 /\ ReturnedText(out) = Strip(JoinNl(GoogleStringParts(r)))
           /\ (r.shape # "dict"
                 \/ (r.candidates # <<>> /\ ~GoogleSafetyBlocked(r) /\ ~GoogleWellFormed(r))) =>
                 out.exc = Exc("ValueError", "Failed to parse response from Google API.")
           /\ out.exc.kind # "none" =>
                 /\ turn[t].pc = "Failed" /\ turn[t].ai_message = 0
                 /\ Cardinality(AssistantRows) = Cardinality(CompletedTurns)

\* C18 (as claimed): the contents list of every Google request issued by a
\* turn strictly alternates roles: no two adjacent entries have the same
\* role.
C18_GoogleContentsAlternate ==
    \A i \in 1..Len(calls) : calls[i].service_name = "google" =>
        \A j \in 1..(Len(calls[i].body.messages) - 1) :
            calls[i].body.messages[j].role # calls[i].body.messages[j + 1].role

\* C19: the Anthropic formatter returns as system the content of the first
\* system message of the history, None when there is none, and as messages
\* the user and assistant messages of the history, in their order, each with
\* its role and content, and no system message.
C19_AnthropicSystemAndMessages ==
    (last_call.fn = "format_messages" /\ last_call.service_name = "anthropic") =>
        LET h == last_call.history
            out == last_call.out
        IN /\ out.system =
                 IF SystemIndexes(h) = {} THEN None
                 ELSE Some(h[CHOOSE i \in SystemIndexes(h) :
                                \A j \in SystemIndexes(h) : i <= j].content)
           /\ out.messages = NonSystemEntries(h)
           /\ \A i \in 1..Len(out.messages) : out.messages[i].role # "system"

\* C19 witness: of two system messages with different contents the first
\* became the system field, and the user and assistant messages between and
\* after them are the messages list.
C19_Witness ==
    /\ last_call.fn = "format_messages" /\ last_call.service_name = "anthropic"
    /\ Cardinality(SystemIndexes(last_call.history)) = 2
    /\ last_call.history[1].role = "user"
    /\ last_call.history[2].content # last_call.history[3].content
    /\ last_call.out.system = Some(last_call.history[2].content)
    /\ Len(last_call.out.messages) = 1

\* An Anthropic body of the expected shape up to the first block's type.
AnthropicFirstBlockType(r) ==
    IF r.shape = "dict" /\ r.type # "error" /\ r.content # <<>> THEN r.content[1].type
    ELSE "missing"

\* C20 (as claimed): Anthropic parse_response raises with the provider's
\* message on an envelope of type "error"; returns the trimmed text of a
\* first content block of type "text"; returns None, raising nothing, on a
\* first block of any other type, and the turn is then AIAbsent, not Failed;
\* and raises the parse error "Failed to parse response from Anthropic API."
\* on every malformed shape.
C20_AnthropicParse ==
    (last_call.fn = "parse_response" /\ last_call.service_name = "anthropic") =>
        LET r == last_call.response_data
            out == last_call.out
            t == last_call.turn
            type == AnthropicFirstBlockType(r)
        IN /\ (r.shape = "dict" /\ r.type = "error") =>
                 out.exc = Exc("ValueError", "Anthropic API Error: " \o r.errmsg)
           /\ (type = "text" /\ r.content[1].text.t = "str") =>
                 out = Returned(Some(Strip(r.content[1].text.s)))
           /\ type \notin {"text", "missing"} =>
                 /\ out = Returned(None)
                 /\ turn[t].pc = "AIAbsent"
           /\ (r.shape # "dict"
                 \/ (r.type # "error" /\ type = "missing")
                 \/ (type = "text" /\ r.content[1].text.t # "str")) =>
                 out.exc = Exc("ValueError", "Failed to parse response from Anthropic API.")

\* The positions a turn ends in, and the moves between positions in the
\* order Received, UserPersisted, HistoryLoaded, Completing, end.
TerminalPcs == {"Completed", "AIAbsent", "Failed"}
StatesInOrder ==
    {<<"Idle", "Rejected">>, <<"Idle", "UserPersisted">>,
     <<"UserPersisted", "HistoryLoaded">>, <<"HistoryLoaded", "Completing">>}
    \cup {<<"Completing", pc>> : pc \in TerminalPcs}
\* A step adds an assistant message.
AssistantAppended ==
    /\ Len(messages') = Len(messages) + 1
    /\ messages'[Len(messages')].role = "assistant"
\* What a step may do to turn t: move it along moves; issue its provider call
\* only with its user message stored; add an assistant message only as the
\* end of a call that returned and parsed to a text, which is the content.
TurnStep(t, moves) ==
    /\ turn'[t].pc # turn[t].pc => <<turn[t].pc, turn'[t].pc>> \in moves
    /\ CallsOf(t)' # CallsOf(t) =>
          /\ turn[t].user_message # 0
          /\ IsStored(turn[t].user_message, turn[t].session, "user")
    /\ (AssistantAppended /\ turn'[t] # turn[t]) =>
          /\ turn[t].pc = "Completing" /\ turn'[t].pc = "Completed"
          /\ CallsOf(t) # {}
          /\ turn'[t].e = NoExc /\ Truthy(turn'[t].ai_response_content)
          /\ messages'[Len(messages')].content = turn'[t].ai_response_content.val
TurnEnds(t) == (turn[t].pc = "UserPersisted") ~> (turn[t].pc \in TerminalPcs)

\* C21 (as claimed): every turn whose content passes validation goes through
\* UserPersisted, HistoryLoaded and Completing in that order and, the
\* outbound call returning or raising, eventually ends in exactly one of
\* Completed, AIAbsent and Failed; its user message is stored before its
\* provider call, and an assistant message is stored only after a
\* successful parse.
C21_TurnPassesEveryState ==
    /\ [][\A t \in Turns : TurnStep(t, StatesInOrder)]_vars
    /\ \A t \in Turns : TurnEnds(t)

\* A turn leaves HistoryLoaded for Failed: constructing the client failed,
\* and no provider call was made.
ConstructionFailed(t) ==
    (turn[t].pc = "HistoryLoaded" /\ turn'[t].pc = "Failed") =>
        /\ turn'[t].client = NoClient
        /\ turn'[t].e.kind = "ValueError"
        /\ calls' = calls /\ CallsOf(t) = {}

\* C21 (amended): every turn whose content passes validation goes through
\* UserPersisted and HistoryLoaded and then, unless constructing the provider
\* client fails (the turn then ends in Failed without a provider call),
\* through Completing, in that order; the outbound call returning or raising,
\* it eventually ends in exactly one of Completed, AIAbsent and Failed; its
\* user message is stored before its provider call, and an assistant message
\* is stored only after a successful parse.
C21_TurnPassesStatesUnlessNoClient ==
    /\ [][\A t \in Turns :
            /\ TurnStep(t, StatesInOrder \cup {<<"HistoryLoaded", "Failed">>})
            /\ ConstructionFailed(t)]_vars
    /\ \A t \in Turns : TurnEnds(t)

\* C21 witness: a turn whose client could not be constructed has ended
\* Failed with its user message stored and no provider call.
C21_Witness ==
    \E t \in Turns :
        /\ turn[t].pc = "Failed" /\ turn[t].client = NoClient
        /\ IsStored(turn[t].user_message, turn[t].session, "user")
        /\ CallsOf(t) = {}

\* h is an initial segment of g.
IsPrefix(h, g) == Len(h) <= Len(g) /\ SubSeq(g, 1, Len(h)) = h
\* The messages a turn (its slot tr) created are among rows as it created
\* them.
KeptIn(tr, rows) ==
    /\ tr.user_message # 0 =>
          \E i \in 1..Len(rows) :
              /\ rows[i].id = tr.user_message
              /\ rows[i].session = tr.session /\ rows[i].role = "user"
              /\ rows[i].content = ValidateContent(tr.data).val
    /\ tr.ai_message # 0 =>
          \E i \in 1..Len(rows) :
              /\ rows[i].id = tr.ai_message
              /\ rows[i].session = tr.session /\ rows[i].role = "assistant"
              /\ rows[i].content = tr.ai_response_content.val
KeepsItsMessages(t) == KeptIn(turn[t], messages)

\* C22: the message history is append-only under every interleaving of
\* turns. No step of a turn changes or removes a stored message; the ordered
\* history of a conversation before a step is an initial segment of its
\* ordered history after it; and after every step every turn, concurrent
\* ones included, has the messages it persisted in the store.
C22_HistoryAppendOnly ==
    [][/\ IsPrefix(messages, messages')
       /\ \A s \in Sessions :
             IsPrefix(OrderedMessages(messages, s), OrderedMessages(messages', s))
       /\ \A t \in Turns : KeptIn(turn'[t], messages')]_vars

\* C22 witness: two turns ran concurrently on one conversation: the second
\* turn stored its user message and completed with an assistant message
\* while the first, whose user message was stored before, was still waiting
\* for its provider; all three messages are in the store.
C22_Witness ==
    \E t1, t2 \in Turns :
        /\ t1 # t2 /\ turn[t1].session = turn[t2].session
        /\ turn[t1].pc = "Completing" /\ turn[t2].pc = "Completed"
        /\ turn[t1].user_message < turn[t2].user_message
        /\ KeepsItsMessages(t1) /\ KeepsItsMessages(t2)
        /\ Len(MessagesHistory(turn[t1].session)) = 3

\* The user message of the turn that issued call i, and a sequence's last
\* element.
UserMessageOfCall(i) == turn[calls[i].turn].user_message
LastOf(h) == h[Len(h)]

RowsOfRole(h, role) == { i \in 1..Len(h) : h[i].role = role }
\* The stored row with an id (the ids of stored rows are distinct).
RowWithId(id) == messages[CHOOSE i \in 1..Len(messages) : messages[i].id = id]

\* C24: in every reachable state of a conversation whose messages were all
\* created by turns, under every interleaving of the turns: there are at most
\* as many assistant messages as user messages; the earliest message has role
\* user; and every assistant message was created by a turn, after that
\* turn's user message (a later row, with a later timestamp).
C24_AssistantsFollowUsers ==
    \A s \in Sessions :
        LET h == MessagesHistory(s)
        IN /\ Cardinality(RowsOfRole(h, "assistant")) <= Cardinality(RowsOfRole(h, "user"))
           /\ h # <<>> => h[1].role = "user"
           /\ \A i \in RowsOfRole(h, "assistant") :
                 \E t \in Turns :
                     /\ turn[t].session = s /\ turn[t].ai_message = h[i].id
                     /\ StoredWithId(turn[t].user_message) # {}
                     /\ RowWithId(turn[t].user_message).role = "user"
                     /\ RowWithId(turn[t].user_message).id < h[i].id
                     /\ RowWithId(turn[t].user_message).timestamp < h[i].timestamp
                     /\ \E j \in 1..(i - 1) : h[j].id = turn[t].user_message

\* C24 witness: two turns interleaved on one conversation and both
\* completed, the first one last: the history reads user, user, assistant,
\* assistant, and the last assistant message answers the first user message.
C24_Witness ==
    \E s \in Sessions : \E t1, t2 \in Turns :
        LET h == MessagesHistory(s)
        IN /\ Len(h) = 4
           /\ [i \in 1..4 |-> h[i].role] = <<"user", "user", "assistant", "assistant">>
           /\ turn[t1].pc = "Completed" /\ turn[t2].pc = "Completed"
           /\ turn[t1].user_message = h[1].id /\ turn[t1].ai_message = h[4].id
           /\ turn[t2].user_message = h[2].id /\ turn[t2].ai_message = h[3].id

====
